---- MODULE Spec2Model ----
(***************************************************************************)
(* A model of pyzerox's litellm completion adapter (models/modellitellm.py)*)
(* and text normalizer (processor/text.py).                                *)
(*                                                                         *)
(* A Python str is a sequence of tokens (each token a piece of the text);  *)
(* string concatenation is sequence concatenation, the empty str is <<>>.  *)
(* A Python dict is a function whose DOMAIN is the set of keys it holds.   *)
(* A call that may raise yields [raised |-> TRUE, err |-> ...] or          *)
(* [raised |-> FALSE, value |-> ...].                                      *)
(*                                                                         *)
(* completion is a coroutine with two awaits (the encoder, the transport). *)
(* It reads self._system_prompt before the first await and shares nothing  *)
(* else with other calls, so one call is one step.  warnings.warn is taken *)
(* under the default warning filters of the interpreter: it records a      *)
(* warning and returns.                                                    *)
(***************************************************************************)
EXTENDS Integers, Sequences, FiniteSets, TLC

VARIABLES
    class_attrs,    \* the class dict of litellmmodel (holds _system_prompt)
    objs,           \* the model objects: [alive, attrs (the instance dict)]
    environ,        \* what litellm's three validators answer for the model
    fs_readable,    \* the page images the encoder can read
    warnings_log,   \* number of warnings emitted through warnings.warn
    transport_calls,\* number of litellm.acompletion calls made
    last,           \* the last call made by a caller, with its outcome
    set_calls,      \* history: number of calls of the system_prompt setter
    overridden,     \* history: object -> the prompt last given to its setter
    latest_override,\* history: <<the prompt last given to any setter>>, or <<>>
    created_late,   \* history: the objects constructed after some override
    run,            \* the page sequencer's state
    fm              \* the last call of format_markdown, with its result

vars == <<class_attrs, objs, environ, fs_readable, warnings_log, transport_calls,
          last, set_calls, overridden, latest_override, created_late, run, fm>>

---------------------------------------------------------------------------
(* Bounds *)
MaxCalls == 3
MaxWarnings == 2
MaxPages == 3
MaxBoxes == 2

---------------------------------------------------------------------------
(* Python helpers *)

SetItem(d, k, v) == [q \in DOMAIN d \cup {k} |-> IF q = k THEN v ELSE d[q]]

EmptyDict == [q \in {} |-> 0]

Raise(kind, desc) == [raised |-> TRUE, err |-> [kind |-> kind, desc |-> desc]]

Return(v) == [raised |-> FALSE, value |-> v]

RECURSIVE Flatten(_)
Flatten(t) == IF t = <<>> THEN "" ELSE Head(t) \o Flatten(Tail(t))

---------------------------------------------------------------------------
(* constants/prompts.py *)

DEFAULT_SYSTEM_PROMPT ==
    <<"\n    Convert the following PDF page to markdown.\n    Return only the markdown with no explanation text.\n    Do not exclude any content from the page.\n    ">>

BOUNDING_BOX_PROMPT ==
    <<"\n    Convert the following PDF page to markdown.\n    Return only the markdown with no explanation text.\n    Do not exclude any content from the page.\n    Include the bounding box coordinates of any inline images.\n    ">>

---------------------------------------------------------------------------
(* The token of a str that stands for a code fence, three backquotes (a    *)
(* backquote cannot be written in a TLA+ string).                          *)
FENCE == "[fence]"

(* The callers' inputs *)

Objs == {"m1", "m2"}

ModelName == "gpt-4o-mini"

CallerPrompts == {BOUNDING_BOX_PROMPT, <<"Transcribe the page.">>}

Images == {"page_0.png", "page_1.png"}

PriorPages == {<<>>, <<"# Title", "\n", "body">>}

---------------------------------------------------------------------------
(* The environment: litellm's validators, the image encoder, the transport *)

Environs ==
    [keys_in_environment : BOOLEAN, supports_vision : BOOLEAN, check_valid_key : BOOLEAN]

B64(image_path) ==
    IF image_path = "page_0.png" THEN <<"cGFnZTA=">> ELSE <<"cGFnZTE=">>

Box1 == [image |-> <<"AAAA">>, bounding_box |-> <<0, 0, 10, 10>>]

Box2 == [image |-> <<"QkJC">>, bounding_box |-> <<5, 7, 20, 30>>]

Contents == {<<"Hello">>, <<FENCE, "markdown", "\n", "# Title", "\n", FENCE>>}

ProviderMessages ==
    {[role |-> "assistant", content |-> c] : c \in Contents}
    \cup {[role |-> "assistant", content |-> <<"Hello">>, bounding_boxes |-> b] :
            b \in {<<>>, <<Box1>>}}
    \cup {[role |-> "assistant"]}

FullUsage == [prompt_tokens |-> 10, completion_tokens |-> 5]

ProviderUsages ==
    {FullUsage, [prompt_tokens |-> 10], [completion_tokens |-> 5]}

(* A provider response: a dict that may lack choices, a first choice, the  *)
(* message, the content, the usage block or one of its token counts.       *)
ProviderResponses ==
    {[choices |-> <<[message |-> m]>>, usage |-> u] :
        m \in ProviderMessages, u \in ProviderUsages}
    \cup {[choices |-> <<[message |-> m]>>] : m \in ProviderMessages}
    \cup {[usage |-> FullUsage],
          [choices |-> <<>>, usage |-> FullUsage],
          [choices |-> <<[finish_reason |-> "stop"]>>, usage |-> FullUsage]}

(* The errors the transport raises: provider errors derive from Exception; *)
(* the cancellation of the awaiting task, raised at the same await, derives *)
(* from BaseException only.                                                *)
ProviderErrors ==
    {[kind |-> "APIConnectionError", desc |-> <<"litellm.APIConnectionError: connection refused">>],
     [kind |-> "RateLimitError", desc |-> <<"litellm.RateLimitError: quota exceeded">>]}

CancelledError == [kind |-> "CancelledError", desc |-> <<>>]

ExceptionKinds ==
    {"APIConnectionError", "RateLimitError", "KeyError", "IndexError",
     "TypeError", "EncodingError", "Exception"}

(* What one await of litellm.acompletion does *)
Replies ==
    {[raised |-> FALSE, value |-> r] : r \in ProviderResponses}
    \cup {[raised |-> TRUE, err |-> e] : e \in ProviderErrors \cup {CancelledError}}

(* processor/image.py: encode_image_to_base64 *)
encode_image_to_base64(image_path) ==
    IF image_path \in fs_readable
    THEN Return(B64(image_path))
    ELSE Raise("EncodingError", <<"cannot read ", image_path>>)

(* constants/messages.py: Messages.COMPLETION_ERROR.format(err) *)
COMPLETION_ERROR(desc) ==
    <<"Error in Completion Response. Error: ">> \o desc
    \o <<" Please check the status of your model provider API status.">>

---------------------------------------------------------------------------
(* models/modellitellm.py *)

(* Attribute lookup: the instance dict first, then the class dict *)
GetAttr(self, name) ==
    IF name \in DOMAIN objs[self].attrs
    THEN objs[self].attrs[name]
    ELSE class_attrs[name]

system_prompt(self) == GetAttr(self, "_system_prompt")

validate_environment(model) ==
    LET env_config == [keys_in_environment |-> environ.keys_in_environment]
    IN  IF ~env_config.keys_in_environment
        THEN [raised |-> TRUE,
              err |-> [kind |-> "MissingEnvironmentVariables", extra_info |-> env_config]]
        ELSE [raised |-> FALSE]

validate_model(model) ==
    IF ~environ.supports_vision
    THEN [raised |-> TRUE,
          err |-> [kind |-> "NotAVisionModel", extra_info |-> [model |-> model]]]
    ELSE [raised |-> FALSE]

validate_access(model) ==
    IF ~environ.check_valid_key
    THEN [raised |-> TRUE,
          err |-> [kind |-> "ModelAccessError", extra_info |-> [model |-> model]]]
    ELSE [raised |-> FALSE]

(* __init__: the result, with the validators called, in order *)
init_unordered(model) ==
    LET v2 == validate_model(model)
        v1 == validate_environment(model)
        v3 == validate_access(model)
    IN  IF v2.raised
        THEN [raised |-> TRUE, err |-> v2.err, called |-> <<"validate_model">>]
        ELSE IF v1.raised
        THEN [raised |-> TRUE, err |-> v1.err,
              called |-> <<"validate_model", "validate_environment">>]
        ELSE IF v3.raised
        THEN [raised |-> TRUE, err |-> v3.err,
              called |-> <<"validate_model", "validate_environment", "validate_access">>]
        ELSE [raised |-> FALSE, attrs |-> [model |-> model],
              called |-> <<"validate_model", "validate_environment", "validate_access">>]

__init__(model) ==
    LET v1 == validate_environment(model)
        v2 == validate_model(model)
        v3 == validate_access(model)
    IN  IF v1.raised
        THEN [raised |-> TRUE, err |-> v1.err, called |-> <<"validate_environment">>]
        ELSE IF v2.raised
        THEN [raised |-> TRUE, err |-> v2.err,
              called |-> <<"validate_environment", "validate_model">>]
        ELSE IF v3.raised
        THEN [raised |-> TRUE, err |-> v3.err,
              called |-> <<"validate_environment", "validate_model", "validate_access">>]
        ELSE [raised |-> FALSE, attrs |-> [model |-> model],
              called |-> <<"validate_environment", "validate_model", "validate_access">>]

(* The setter's effect on the program: a warning, then the assignment to   *)
(* self._system_prompt, which writes the instance dict.                    *)
system_prompt_setter_no_assign(self, prompt) ==
    /\ warnings_log' = warnings_log + 1
    /\ UNCHANGED <<objs, class_attrs>>

system_prompt_setter_on_class(self, prompt) ==
    /\ warnings_log' = warnings_log + 1
    /\ class_attrs' = SetItem(class_attrs, "_system_prompt", prompt)
    /\ UNCHANGED objs

system_prompt_setter(self, prompt) ==
    /\ warnings_log' = warnings_log + 1
    /\ objs' = [objs EXCEPT ![self].attrs = SetItem(@, "_system_prompt", prompt)]
    /\ UNCHANGED class_attrs

ContinuityInstruction(prior_page) ==
    <<"Markdown must maintain consistent formatting with the following page: \n\n \"\"\"">>
    \o prior_page \o <<"\"\"\"">>

ImageMessage(base64_image) ==
    [role |-> "user",
     content |-> <<[type |-> "image_url",
                    image_url |-> [url |-> <<"data:image/png;base64,">> \o base64_image]]>>]

SystemMessage(content) == [role |-> "system", content |-> content]

prepare_messages_ignoring_flag(self, image_path, maintain_format, prior_page) ==
    LET m1 == <<SystemMessage(system_prompt(self))>>
        m2 == IF prior_page # <<>>
              THEN Append(m1, SystemMessage(ContinuityInstruction(prior_page)))
              ELSE m1
        enc == encode_image_to_base64(image_path)
    IN  IF enc.raised THEN enc ELSE Return(Append(m2, ImageMessage(enc.value)))

prepare_messages_dropping_prior(self, image_path, maintain_format, prior_page) ==
    LET m1 == <<SystemMessage(system_prompt(self))>>
        m2 == IF maintain_format /\ prior_page # <<>>
              THEN Append(m1, SystemMessage(ContinuityInstruction(<<>>)))
              ELSE m1
        enc == encode_image_to_base64(image_path)
    IN  IF enc.raised THEN enc ELSE Return(Append(m2, ImageMessage(enc.value)))

_prepare_messages(self, image_path, maintain_format, prior_page) ==
    LET m1 == <<SystemMessage(GetAttr(self, "_system_prompt"))>>
        m2 == IF maintain_format /\ prior_page # <<>>
              THEN Append(m1, SystemMessage(ContinuityInstruction(prior_page)))
              ELSE m1
        enc == encode_image_to_base64(image_path)
    IN  IF enc.raised THEN enc ELSE Return(Append(m2, ImageMessage(enc.value)))

(* The CompletionResponse built from the provider response: the fields are *)
(* evaluated in the order written, and the first subscript that fails      *)
(* raises (str(KeyError(k)) is k in quotes).                               *)
completion_response_boxes_required(response) ==
    IF "choices" \notin DOMAIN response THEN Raise("KeyError", <<"'choices'">>)
    ELSE IF Len(response.choices) = 0
    THEN Raise("IndexError", <<"list index out of range">>)
    ELSE IF "message" \notin DOMAIN response.choices[1]
    THEN Raise("KeyError", <<"'message'">>)
    ELSE IF "content" \notin DOMAIN response.choices[1].message
    THEN Raise("KeyError", <<"'content'">>)
    ELSE IF "usage" \notin DOMAIN response THEN Raise("KeyError", <<"'usage'">>)
    ELSE IF "prompt_tokens" \notin DOMAIN response.usage
    THEN Raise("KeyError", <<"'prompt_tokens'">>)
    ELSE IF "completion_tokens" \notin DOMAIN response.usage
    THEN Raise("KeyError", <<"'completion_tokens'">>)
    ELSE IF "bounding_boxes" \notin DOMAIN response.choices[1].message
    THEN Raise("KeyError", <<"'bounding_boxes'">>)
    ELSE Return([content |-> response.choices[1].message.content,
                 input_tokens |-> response.usage.prompt_tokens,
                 output_tokens |-> response.usage.completion_tokens,
                 bounding_boxes |-> response.choices[1].message.bounding_boxes])

completion_response_tokens_defaulted(response) ==
    IF "choices" \notin DOMAIN response THEN Raise("KeyError", <<"'choices'">>)
    ELSE IF Len(response.choices) = 0
    THEN Raise("IndexError", <<"list index out of range">>)
    ELSE IF "message" \notin DOMAIN response.choices[1]
    THEN Raise("KeyError", <<"'message'">>)
    ELSE IF "content" \notin DOMAIN response.choices[1].message
    THEN Raise("KeyError", <<"'content'">>)
    ELSE LET usage == IF "usage" \in DOMAIN response THEN response.usage ELSE EmptyDict
             message == response.choices[1].message
         IN  Return([content |-> message.content,
                     input_tokens |-> IF "prompt_tokens" \in DOMAIN usage
                                      THEN usage.prompt_tokens ELSE 0,
                     output_tokens |-> IF "completion_tokens" \in DOMAIN usage
                                       THEN usage.completion_tokens ELSE 0,
                     bounding_boxes |-> IF "bounding_boxes" \in DOMAIN message
                                        THEN message.bounding_boxes ELSE <<>>])

completion_response(response) ==
    IF "choices" \notin DOMAIN response THEN Raise("KeyError", <<"'choices'">>)
    ELSE IF Len(response.choices) = 0
    THEN Raise("IndexError", <<"list index out of range">>)
    ELSE IF "message" \notin DOMAIN response.choices[1]
    THEN Raise("KeyError", <<"'message'">>)
    ELSE IF "content" \notin DOMAIN response.choices[1].message
    THEN Raise("KeyError", <<"'content'">>)
    ELSE IF "usage" \notin DOMAIN response THEN Raise("KeyError", <<"'usage'">>)
    ELSE IF "prompt_tokens" \notin DOMAIN response.usage
    THEN Raise("KeyError", <<"'prompt_tokens'">>)
    ELSE IF "completion_tokens" \notin DOMAIN response.usage
    THEN Raise("KeyError", <<"'completion_tokens'">>)
    ELSE LET message == response.choices[1].message
         IN  Return([content |-> message.content,
                     input_tokens |-> response.usage.prompt_tokens,
                     output_tokens |-> response.usage.completion_tokens,
                     bounding_boxes |-> IF "bounding_boxes" \in DOMAIN message
                                        THEN message.bounding_boxes ELSE <<>>])

(* except Exception as err: raise Exception(COMPLETION_ERROR.format(err)). *)
(* An error that does not derive from Exception passes through.            *)
reraise_unwrapped(err) == err

reraise(err) ==
    IF err.kind \in ExceptionKinds
    THEN [kind |-> "Exception", desc |-> COMPLETION_ERROR(err.desc)]
    ELSE err

(* completion: the outcome of one call, given what the awaited transport   *)
(* call does.  built: _prepare_messages returned; sent: litellm.acompletion*)
(* was called.                                                             *)
completion_prepare_inside_try(self, image_path, maintain_format, prior_page, reply) ==
    LET prep == _prepare_messages(self, image_path, maintain_format, prior_page)
        body == IF reply.raised THEN reply ELSE completion_response(reply.value)
    IN  IF prep.raised
        THEN [status |-> "raised", built |-> FALSE, sent |-> FALSE, err |-> reraise(prep.err)]
        ELSE IF body.raised
        THEN [status |-> "raised", built |-> TRUE, messages |-> prep.value,
              sent |-> TRUE, err |-> reraise(body.err)]
        ELSE [status |-> "returned", built |-> TRUE, messages |-> prep.value,
              sent |-> TRUE, result |-> body.value]

completion(self, image_path, maintain_format, prior_page, reply) ==
    LET prep == _prepare_messages(self, image_path, maintain_format, prior_page)
        body == IF reply.raised THEN reply ELSE completion_response(reply.value)
    IN  IF prep.raised
        THEN [status |-> "raised", built |-> FALSE, sent |-> FALSE, err |-> prep.err]
        ELSE IF body.raised
        THEN [status |-> "raised", built |-> TRUE, messages |-> prep.value,
              sent |-> TRUE, err |-> reraise(body.err)]
        ELSE [status |-> "returned", built |-> TRUE, messages |-> prep.value,
              sent |-> TRUE, result |-> body.value]

---------------------------------------------------------------------------
(* processor/text.py *)

(* constants/patterns.py, re.sub(Patterns.MATCH_MARKDOWN_BLOCKS, r"\1", s):*)
(* a text that is, as a whole, one fenced markdown block is replaced by    *)
(* what the fences enclose; any other text is left as it is.               *)
Unwrap(text, opening) ==
    IF /\ Len(text) >= Len(opening) + 2
       /\ SubSeq(text, 1, Len(opening)) = opening
       /\ SubSeq(text, Len(text) - 1, Len(text)) = <<"\n", FENCE>>
    THEN SubSeq(text, Len(opening) + 1, Len(text) - 2)
    ELSE text

sub_MATCH_MARKDOWN_BLOCKS(text) == Unwrap(text, <<FENCE, "markdown", "\n">>)

sub_MATCH_CODE_BLOCKS(text) == Unwrap(text, <<FENCE, "\n">>)

RECURSIVE Join(_, _)
Join(parts, sep) ==
    IF parts = <<>> THEN <<>>
    ELSE IF Len(parts) = 1 THEN Head(parts)
    ELSE Head(parts) \o sep \o Join(Tail(parts), sep)

(* str() of a list of ints, as an f-string renders it: "[0, 0, 10, 10]" *)
str_list(l) ==
    <<"[">> \o Join([i \in 1..Len(l) |-> <<ToString(l[i])>>], <<", ">>) \o <<"]">>

BoxMarkdown(box) ==
    <<"![Image](data:image/png;base64,">> \o box.image
    \o <<")", "\n\n", "Bounding Box: ">> \o str_list(box.bounding_box)

(* The optional argument: None, or a list of boxes *)
None == [is_none |-> TRUE]

List(boxes) == [is_none |-> FALSE, list |-> boxes]

Truthy(arg) == ~arg.is_none /\ arg.list # <<>>

format_markdown_newline_joined(text, bounding_boxes) ==
    LET formatted_markdown == sub_MATCH_CODE_BLOCKS(sub_MATCH_MARKDOWN_BLOCKS(text))
    IN  IF Truthy(bounding_boxes)
        THEN formatted_markdown \o <<"\n\n">>
             \o Join([i \in 1..Len(bounding_boxes.list) |->
                        BoxMarkdown(bounding_boxes.list[i])], <<"\n">>)
        ELSE formatted_markdown

format_markdown(text, bounding_boxes) ==
    LET formatted_markdown == sub_MATCH_CODE_BLOCKS(sub_MATCH_MARKDOWN_BLOCKS(text))
    IN  IF Truthy(bounding_boxes)
        THEN formatted_markdown \o <<"\n\n">>
             \o Join([i \in 1..Len(bounding_boxes.list) |->
                        BoxMarkdown(bounding_boxes.list[i])], <<"\n\n">>)
        ELSE formatted_markdown

---------------------------------------------------------------------------
(* The callers of the model objects *)

NoCall == [op |-> "none"]

(* litellmmodel(model=...): the object exists only if __init__ returns *)
Construct(self) ==
    /\ ~objs[self].alive
    /\ LET r == __init__(ModelName)
       IN  /\ objs' = IF r.raised THEN objs
                      ELSE [objs EXCEPT ![self] = [alive |-> TRUE, attrs |-> r.attrs]]
           /\ last' = [op |-> "__init__", self |-> self, out |-> r]
           /\ created_late' = IF ~r.raised /\ latest_override # <<>>
                              THEN created_late \cup {self} ELSE created_late
    /\ UNCHANGED <<class_attrs, environ, fs_readable, warnings_log, transport_calls,
                   set_calls, overridden, latest_override, run, fm>>

(* obj.system_prompt = prompt *)
SetSystemPrompt(self, prompt) ==
    /\ objs[self].alive
    /\ warnings_log < MaxWarnings
    /\ system_prompt_setter(self, prompt)
    /\ set_calls' = set_calls + 1
    /\ overridden' = SetItem(overridden, self, prompt)
    /\ latest_override' = <<prompt>>
    /\ last' = [op |-> "system_prompt.setter", self |-> self, prompt |-> prompt]
    /\ UNCHANGED <<environ, fs_readable, transport_calls, created_late, run, fm>>

(* await obj.completion(image_path, maintain_format, prior_page) *)
CallCompletion(self, image_path, maintain_format, prior_page, reply) ==
    /\ objs[self].alive
    /\ transport_calls < MaxCalls
    /\ LET out == completion(self, image_path, maintain_format, prior_page, reply)
       IN  /\ last' = [op |-> "completion", self |-> self, image_path |-> image_path,
                       maintain_format |-> maintain_format, prior_page |-> prior_page,
                       reply |-> reply, out |-> out]
           /\ transport_calls' = transport_calls + (IF out.sent THEN 1 ELSE 0)
    /\ UNCHANGED <<class_attrs, objs, environ, fs_readable, warnings_log,
                   set_calls, overridden, latest_override, created_late, run, fm>>

Init ==
    /\ class_attrs = [_system_prompt |-> DEFAULT_SYSTEM_PROMPT]
    /\ objs = [o \in Objs |-> [alive |-> FALSE, attrs |-> EmptyDict]]
    /\ environ \in Environs
    /\ fs_readable \in SUBSET Images
    /\ warnings_log = 0
    /\ transport_calls = 0
    /\ last = NoCall
    /\ set_calls = 0
    /\ overridden = EmptyDict
    /\ latest_override = <<>>
    /\ created_late = {}
    /\ run = [status |-> "idle"]
    /\ fm = [called |-> FALSE]

OkReply == [raised |-> FALSE,
            value |-> [choices |-> <<[message |-> [role |-> "assistant",
                                                   content |-> <<"Hello">>]]>>,
                       usage |-> FullUsage]]

FailReply ==
    [raised |-> TRUE,
     err |-> [kind |-> "RateLimitError", desc |-> <<"litellm.RateLimitError: quota exceeded">>]]

(* Model objects, their system prompts and the requests they build *)
Next ==
    \/ \E self \in Objs : Construct(self)
    \/ \E self \in Objs, prompt \in CallerPrompts : SetSystemPrompt(self, prompt)
    \/ \E self \in Objs, image_path \in Images, maintain_format \in BOOLEAN,
          prior_page \in PriorPages, reply \in {OkReply, FailReply} :
            CallCompletion(self, image_path, maintain_format, prior_page, reply)

Spec == Init /\ [][Next]_vars

(* One model object and every shape of reply of the transport *)
NextAdapter ==
    \/ Construct("m1")
    \/ \E image_path \in Images, maintain_format \in BOOLEAN, reply \in Replies :
            CallCompletion("m1", image_path, maintain_format, <<"body">>, reply)

SpecAdapter == Init /\ [][NextAdapter]_vars

(* format_markdown(text) and format_markdown(text, bounding_boxes) *)
Tokens == {FENCE, "markdown", "\n", "body"}

Texts ==
    {<<>>} \cup {<<a>> : a \in Tokens} \cup {<<a, b>> : a \in Tokens, b \in Tokens}
    \cup {<<FENCE, "markdown", "\n", "# Title", "\n", FENCE>>,
          <<FENCE, "\n", "body", "\n", FENCE>>,
          <<FENCE, "markdown", "\n", FENCE, "\n", "body", "\n", FENCE, "\n", FENCE>>,
          <<FENCE, "markdown", "\n", "\n", FENCE>>,
          <<"body", "\n", FENCE, "\n", "x = 1", "\n", FENCE>>}

BoxLists == UNION {[1..n -> {Box1, Box2}] : n \in 0..MaxBoxes}

(* The arguments are drawn when the behaviour starts; the call applies    *)
(* format_markdown to them.                                                *)
InitFormat ==
    /\ class_attrs = [_system_prompt |-> DEFAULT_SYSTEM_PROMPT]
    /\ objs = [o \in Objs |-> [alive |-> FALSE, attrs |-> EmptyDict]]
    /\ environ = [keys_in_environment |-> TRUE, supports_vision |-> TRUE,
                  check_valid_key |-> TRUE]
    /\ fs_readable = Images
    /\ warnings_log = 0
    /\ transport_calls = 0
    /\ last = NoCall
    /\ set_calls = 0
    /\ overridden = EmptyDict
    /\ latest_override = <<>>
    /\ created_late = {}
    /\ run = [status |-> "idle"]
    /\ \E text \in Texts, bounding_boxes \in {None} \cup {List(b) : b \in BoxLists} :
          fm = [called |-> FALSE, text |-> text, bounding_boxes |-> bounding_boxes]

FormatCall ==
    /\ ~fm.called
    /\ fm' = [called |-> TRUE, text |-> fm.text, bounding_boxes |-> fm.bounding_boxes,
              out |-> format_markdown(fm.text, fm.bounding_boxes)]
    /\ UNCHANGED <<class_attrs, objs, environ, fs_readable, warnings_log,
                   transport_calls, last, set_calls, overridden, latest_override,
                   created_late, run>>

NextFormat == FormatCall

SpecFormat == InitFormat /\ [][NextFormat]_vars

(* The page sequencer: page i+1 is requested with the normalized markdown  *)
(* of page i as prior_page, page 0 with the empty str; a page that fails   *)
(* ends the run.                                                           *)
PageImage(i) == IF i % 2 = 0 THEN "page_0.png" ELSE "page_1.png"

StartRun(self, maintain_format, n_pages) ==
    /\ run.status = "idle"
    /\ objs[self].alive
    /\ run' = [status |-> "running", self |-> self, maintain_format |-> maintain_format,
               n_pages |-> n_pages, prior_page |-> <<>>, requests |-> <<>>,
               markdown |-> <<>>]
    /\ UNCHANGED <<class_attrs, objs, environ, fs_readable, warnings_log,
                   transport_calls, last, set_calls, overridden, latest_override,
                   created_late, fm>>

ProcessPage(reply) ==
    /\ run.status = "running"
    /\ transport_calls < MaxCalls
    /\ LET i == Len(run.markdown)
           out == completion(run.self, PageImage(i), run.maintain_format,
                             run.prior_page, reply)
           requests == IF out.built THEN Append(run.requests, out.messages)
                       ELSE run.requests
       IN  /\ transport_calls' = transport_calls + (IF out.sent THEN 1 ELSE 0)
           /\ IF out.status = "returned"
              THEN LET page == format_markdown(out.result.content,
                                               List(out.result.bounding_boxes))
                   IN  run' = [run EXCEPT
                                 !.requests = requests,
                                 !.markdown = Append(@, page),
                                 !.prior_page = page,
                                 !.status = IF i + 1 = run.n_pages THEN "done"
                                            ELSE "running"]
              ELSE run' = [run EXCEPT !.requests = requests, !.status = "failed"]
    /\ UNCHANGED <<class_attrs, objs, environ, fs_readable, warnings_log, last,
                   set_calls, overridden, latest_override, created_late, fm>>

RunContents ==
    {<<"Hello">>, <<FENCE, "markdown", "\n", "# Title", "\n", FENCE>>,
     <<FENCE, "markdown", "\n", "\n", FENCE>>}

RunReplies ==
    {[raised |-> FALSE,
      value |-> [choices |-> <<[message |-> [role |-> "assistant", content |-> c]]>>,
                 usage |-> FullUsage]] : c \in RunContents}
    \cup {[raised |-> FALSE,
           value |-> [choices |-> <<[message |-> [role |-> "assistant", content |-> c,
                                                  bounding_boxes |-> <<Box1>>]]>>,
                      usage |-> FullUsage]] : c \in RunContents}
    \cup {FailReply}

NextRun ==
    \/ Construct("m1")
    \/ \E maintain_format \in BOOLEAN, n_pages \in 1..MaxPages :
          StartRun("m1", maintain_format, n_pages)
    \/ \E reply \in RunReplies : ProcessPage(reply)

SpecRun == Init /\ [][NextRun]_vars

---------------------------------------------------------------------------
(* Properties of the request builder, the adapter and the model objects *)

BuiltRequest == last.op = "completion" /\ last.out.built

(* The prompt a model object is expected to use: the one last given to its *)
(* own setter, the built-in default before that.                           *)
ExpectedPrompt(self) ==
    IF self \in DOMAIN overridden THEN overridden[self] ELSE DEFAULT_SYSTEM_PROMPT

Embeds(text, part) ==
    \E i \in 1..(Len(text) + 1) : \E j \in (i - 1)..Len(text) : SubSeq(text, i, j) = part

(* C1: every request _prepare_messages returns starts with one system      *)
(* entry holding the active system prompt, ends with the only user entry,  *)
(* which carries the image of the page, and has a second system entry (the *)
(* continuity instruction) iff maintain_format is true and prior_page is   *)
(* non-empty: 2 or 3 entries and nothing else.                             *)
C1_RequestShape ==
    BuiltRequest =>
        LET m == last.out.messages
            continuity == last.maintain_format /\ last.prior_page # <<>>
        IN  /\ Len(m) = (IF continuity THEN 3 ELSE 2)
            /\ m[1].role = "system"
            /\ m[1].content = system_prompt(last.self)
            /\ m[Len(m)].role = "user"
            /\ m[Len(m)].content =
                 <<[type |-> "image_url",
                    image_url |-> [url |-> <<"data:image/png;base64,">>
                                           \o B64(last.image_path)]]>>
            /\ \A i \in 1..(Len(m) - 1) : m[i].role = "system"
            /\ continuity =>
                 /\ m[2].content # m[1].content
                 /\ Embeds(m[2].content, <<"Markdown must maintain consistent formatting with the following page: \n\n \"\"\"">>)

C1_Witness ==
    /\ BuiltRequest
    /\ last.maintain_format /\ last.prior_page # <<>>
    /\ Len(last.out.messages) = 3
    /\ last.self \in DOMAIN overridden

(* The parts of a provider response *)
HasFirstChoice(r) == "choices" \in DOMAIN r /\ Len(r.choices) > 0

HasMessage(r) == HasFirstChoice(r) /\ "message" \in DOMAIN r.choices[1]

HasContent(r) == HasMessage(r) /\ "content" \in DOMAIN r.choices[1].message

HasUsage(r) ==
    /\ "usage" \in DOMAIN r
    /\ "prompt_tokens" \in DOMAIN r.usage
    /\ "completion_tokens" \in DOMAIN r.usage

(* What Python says of the first missing part of a response *)
CauseOfMalformed(r) ==
    IF "choices" \notin DOMAIN r THEN <<"'choices'">>
    ELSE IF ~HasFirstChoice(r) THEN <<"list index out of range">>
    ELSE IF ~HasMessage(r) THEN <<"'message'">>
    ELSE <<"'content'">>

(* C3: once the request is built, a failure (the transport raising a       *)
(* provider error, or a response without choices, first choice, message or *)
(* content) ends completion in the one uniform error kind, whose message   *)
(* embeds the description of the cause; no other kind escapes and there is *)
(* no result.  (The cancellation of the awaiting task is no failure of the *)
(* transport: it derives from BaseException and is not part of this.)      *)
C3_UniformCompletionFailure ==
    (BuiltRequest /\ (IF last.reply.raised
                      THEN last.reply.err \in ProviderErrors
                      ELSE ~HasContent(last.reply.value))) =>
        /\ last.out.status = "raised"
        /\ "result" \notin DOMAIN last.out
        /\ last.out.err.kind = "Exception"
        /\ Embeds(last.out.err.desc,
                  IF last.reply.raised THEN last.reply.err.desc
                  ELSE CauseOfMalformed(last.reply.value))

C3_Witness ==
    /\ BuiltRequest
    /\ ~last.reply.raised
    /\ HasFirstChoice(last.reply.value) /\ ~HasMessage(last.reply.value)
    /\ last.out.status = "raised"
    /\ last.out.err.kind = "Exception"

(* C4: when the encoder fails while the request is built, completion ends  *)
(* in the encoder's own error, unchanged, and that call makes no call of   *)
(* the transport.                                                          *)
C4_EncodingErrorPropagates ==
    [][(last'.op = "completion" /\ last'.image_path \notin fs_readable) =>
         /\ last'.out.status = "raised"
         /\ last'.out.err = [kind |-> "EncodingError",
                             desc |-> <<"cannot read ", last'.image_path>>]
         /\ ~last'.out.sent
         /\ transport_calls' = transport_calls]_vars

C4_Witness ==
    /\ last.op = "completion"
    /\ last.image_path \notin fs_readable
    /\ last.out.status = "raised"
    /\ last.out.err.kind = "EncodingError"

(* C5: a response whose first choice has content and whose usage has both  *)
(* token counts succeeds with or without a bounding_boxes field: content   *)
(* and token counts are the response's own, bounding_boxes is the field's  *)
(* sequence when present and the empty sequence when absent.               *)
C5_ResponseNormalized ==
    (BuiltRequest /\ ~last.reply.raised
       /\ HasContent(last.reply.value) /\ HasUsage(last.reply.value)) =>
        LET r == last.reply.value
            message == r.choices[1].message
        IN  /\ last.out.status = "returned"
            /\ last.out.result.content = message.content
            /\ last.out.result.input_tokens = r.usage.prompt_tokens
            /\ last.out.result.output_tokens = r.usage.completion_tokens
            /\ "bounding_boxes" \in DOMAIN message =>
                 last.out.result.bounding_boxes = message.bounding_boxes
            /\ "bounding_boxes" \notin DOMAIN message =>
                 last.out.result.bounding_boxes = <<>>

C5_Witness ==
    /\ BuiltRequest /\ ~last.reply.raised
    /\ HasContent(last.reply.value) /\ HasUsage(last.reply.value)
    /\ "bounding_boxes" \notin DOMAIN last.reply.value.choices[1].message
    /\ last.out.status = "returned"
    /\ last.out.result.bounding_boxes = <<>>

(* C6: a response that lacks the usage block, or one of its two token      *)
(* counts, ends completion in an error; no result is returned, so no count *)
(* is replaced by a default.                                               *)
C6_MissingUsageIsAnError ==
    (BuiltRequest /\ ~last.reply.raised /\ ~HasUsage(last.reply.value)) =>
        /\ last.out.status = "raised"
        /\ "result" \notin DOMAIN last.out

C6_Witness ==
    /\ BuiltRequest /\ ~last.reply.raised
    /\ HasContent(last.reply.value)
    /\ "usage" \in DOMAIN last.reply.value
    /\ "completion_tokens" \notin DOMAIN last.reply.value.usage
    /\ last.out.status = "raised"

AllValidators == <<"validate_environment", "validate_model", "validate_access">>

(* C7: construction validates in the order credentials present, vision     *)
(* support, credential access; the first check that fails ends it with its *)
(* own error kind and the later checks are not run; when a check fails no  *)
(* model object exists and no call of the transport has been made.         *)
C7_PreflightOrder ==
    /\ last.op = "__init__" =>
         LET r == last.out
         IN  /\ ~environ.keys_in_environment =>
                  /\ r.raised /\ r.err.kind = "MissingEnvironmentVariables"
                  /\ r.called = SubSeq(AllValidators, 1, 1)
             /\ (environ.keys_in_environment /\ ~environ.supports_vision) =>
                  /\ r.raised /\ r.err.kind = "NotAVisionModel"
                  /\ r.called = SubSeq(AllValidators, 1, 2)
             /\ (environ.keys_in_environment /\ environ.supports_vision
                   /\ ~environ.check_valid_key) =>
                  /\ r.raised /\ r.err.kind = "ModelAccessError"
                  /\ r.called = AllValidators
             /\ (environ.keys_in_environment /\ environ.supports_vision
                   /\ environ.check_valid_key) =>
                  /\ ~r.raised
                  /\ r.called = AllValidators
    /\ ~(environ.keys_in_environment /\ environ.supports_vision
           /\ environ.check_valid_key) =>
         /\ \A o \in Objs : ~objs[o].alive
         /\ transport_calls = 0

C7_Witness ==
    /\ last.op = "__init__"
    /\ environ.keys_in_environment /\ ~environ.supports_vision
    /\ ~environ.check_valid_key
    /\ last.out.raised /\ last.out.err.kind = "NotAVisionModel"
    /\ transport_calls = 0

(* C8: every call of the system_prompt setter emits a warning and          *)
(* completes; afterwards the getter of that object returns the new prompt  *)
(* and every request the object builds has it as the content of its first  *)
(* message; before any override of the object that is the default prompt.  *)
C8_OverrideTakesEffect ==
    /\ warnings_log = set_calls
    /\ \A o \in Objs : objs[o].alive => system_prompt(o) = ExpectedPrompt(o)
    /\ BuiltRequest => last.out.messages[1].content = ExpectedPrompt(last.self)

C8_Witness ==
    /\ BuiltRequest
    /\ warnings_log = 2
    /\ last.self \in DOMAIN overridden
    /\ last.out.messages[1].content = <<"Transcribe the page.">>

(* C9 as stated: once any model object has had its prompt overridden, the  *)
(* requests of every model object carry the overridden prompt.             *)
C9_ProcessWidePrompt ==
    (BuiltRequest /\ latest_override # <<>>) =>
        last.out.messages[1].content = latest_override[1]

(* C9, amended: the override is per object.  A model object whose own      *)
(* setter was never called, created before or after the override of        *)
(* another object, keeps the default prompt, in its getter and in the      *)
(* requests it builds; the class attribute stays the default.              *)
C9_OverrideIsPerObject ==
    /\ class_attrs["_system_prompt"] = DEFAULT_SYSTEM_PROMPT
    /\ \A o \in Objs :
         (objs[o].alive /\ o \notin DOMAIN overridden) =>
             system_prompt(o) = DEFAULT_SYSTEM_PROMPT
    /\ (BuiltRequest /\ last.self \notin DOMAIN overridden) =>
         last.out.messages[1].content = DEFAULT_SYSTEM_PROMPT

C9_Witness ==
    /\ BuiltRequest
    /\ last.self \notin DOMAIN overridden
    /\ last.self \in created_late
    /\ \E o \in DOMAIN overridden : overridden[o] # DEFAULT_SYSTEM_PROMPT
    /\ last.out.messages[1].content = DEFAULT_SYSTEM_PROMPT

---------------------------------------------------------------------------
(* Properties of a page-by-page run and of format_markdown *)

(* The continuity instruction of a request: a system entry after the first *)
IsContinuity(entry) ==
    /\ entry.role = "system"
    /\ Embeds(entry.content, <<"Markdown must maintain consistent formatting with the following page: \n\n \"\"\"">>)

HasContinuity(request) ==
    \E i \in 2..Len(request) : IsContinuity(request[i])

(* C2: in a run that passes the empty str for page 0 and the normalized    *)
(* markdown of page i for page i+1: with maintain_format true the request  *)
(* of page 0 has no continuity instruction and the request of every page   *)
(* whose predecessor produced non-empty markdown holds that markdown       *)
(* verbatim inside its continuity instruction; with maintain_format false  *)
(* no request has a continuity instruction.                                *)
C2_ContinuityLaw ==
    run.status # "idle" =>
        \A k \in 1..Len(run.requests) :
            LET request == run.requests[k]
            IN  /\ run.maintain_format =>
                     /\ k = 1 => ~HasContinuity(request)
                     /\ (k > 1 /\ run.markdown[k - 1] # <<>>) =>
                          \E i \in 2..Len(request) :
                              /\ IsContinuity(request[i])
                              /\ Embeds(request[i].content,
                                        run.markdown[k - 1] \o <<"\"\"\"">>)
                /\ ~run.maintain_format => ~HasContinuity(request)

C2_Witness ==
    /\ run.status = "done"
    /\ run.maintain_format
    /\ Len(run.requests) = 3
    /\ run.markdown[1] = <<>>
    /\ run.markdown[2] = <<"# Title", "\n\n", "![Image](data:image/png;base64,", "AAAA",
                           ")", "\n\n", "Bounding Box: ", "[", "0", ", ", "0", ", ",
                           "10", ", ", "10", "]">>
    /\ ~HasContinuity(run.requests[2])
    /\ HasContinuity(run.requests[3])

(* The text a box contributes, written out as one string: the image        *)
(* reference line, a blank line, the bounding box line.                    *)
RECURSIVE Compact(_)
Compact(l) ==
    IF l = <<>> THEN ""
    ELSE IF Len(l) = 1 THEN ToString(l[1])
    ELSE ToString(l[1]) \o "," \o Compact(Tail(l))

RECURSIVE Spaced(_)
Spaced(l) ==
    IF l = <<>> THEN ""
    ELSE IF Len(l) = 1 THEN ToString(l[1])
    ELSE ToString(l[1]) \o ", " \o Spaced(Tail(l))

ImageLine(box) == "![Image](data:image/png;base64," \o Flatten(box.image) \o ")"

RECURSIVE BlocksCompact(_)
BlocksCompact(boxes) ==
    ImageLine(boxes[1]) \o "\n" \o "\n" \o "Bounding Box: "
        \o "[" \o Compact(boxes[1].bounding_box) \o "]"
        \o (IF Len(boxes) = 1 THEN "" ELSE "\n" \o "\n" \o BlocksCompact(Tail(boxes)))

RECURSIVE BlocksSpaced(_)
BlocksSpaced(boxes) ==
    ImageLine(boxes[1]) \o "\n" \o "\n" \o "Bounding Box: "
        \o "[" \o Spaced(boxes[1].bounding_box) \o "]"
        \o (IF Len(boxes) = 1 THEN "" ELSE "\n" \o "\n" \o BlocksSpaced(Tail(boxes)))

Unfenced(text) == Flatten(sub_MATCH_CODE_BLOCKS(sub_MATCH_MARKDOWN_BLOCKS(text)))

NoBoxes(arg) == arg.is_none \/ arg.list = <<>>

(* C10 as stated: nothing is appended without boxes; with boxes the result *)
(* is the unwrapped text, a blank line, and the blocks in order, separated *)
(* by blank lines, the coordinates written [0,0,10,10]; for "body" and the *)
(* box {image: "AAAA", bounding_box: [0,0,10,10]} the result is            *)
(* "body\n\n![Image](data:image/png;base64,AAAA)\n\nBounding Box: [0,0,10,10]". *)
C10_AppendLawAsStated ==
    fm.called =>
        /\ NoBoxes(fm.bounding_boxes) => Flatten(fm.out) = Unfenced(fm.text)
        /\ ~NoBoxes(fm.bounding_boxes) =>
             Flatten(fm.out) = Unfenced(fm.text) \o "\n" \o "\n"
                                 \o BlocksCompact(fm.bounding_boxes.list)
        /\ (fm.text = <<"body">> /\ fm.bounding_boxes = List(<<Box1>>)) =>
             Flatten(fm.out) =
               "body\n\n![Image](data:image/png;base64,AAAA)\n\nBounding Box: [0,0,10,10]"

(* C10, amended: the same law with the coordinate data written as Python   *)
(* writes a list, its elements separated by a comma and a space; for       *)
(* "body" and the box {image: "AAAA", bounding_box: [0,0,10,10]} the       *)
(* result ends "Bounding Box: [0, 0, 10, 10]".                             *)
C10_AppendLaw ==
    fm.called =>
        /\ NoBoxes(fm.bounding_boxes) => Flatten(fm.out) = Unfenced(fm.text)
        /\ ~NoBoxes(fm.bounding_boxes) =>
             Flatten(fm.out) = Unfenced(fm.text) \o "\n" \o "\n"
                                 \o BlocksSpaced(fm.bounding_boxes.list)
        /\ (fm.text = <<"body">> /\ fm.bounding_boxes = List(<<Box1>>)) =>
             Flatten(fm.out) =
               "body\n\n![Image](data:image/png;base64,AAAA)\n\nBounding Box: [0, 0, 10, 10]"

C10_Witness ==
    /\ fm.called
    /\ fm.text = <<FENCE, "markdown", "\n", "# Title", "\n", FENCE>>
    /\ fm.bounding_boxes = List(<<Box1, Box2>>)
    /\ Flatten(fm.out) =
         "# Title\n\n![Image](data:image/png;base64,AAAA)\n\nBounding Box: [0, 0, 10, 10]\n\n![Image](data:image/png;base64,QkJC)\n\nBounding Box: [5, 7, 20, 30]"

====
